---------------------------- MODULE Spec2Model ----------------------------
(***************************************************************************)
(* Transcript token alignment and re-timing engine (src/model.js), with    *)
(* the LCS-table aligner of src/workers/align-worker.js as reference.      *)
(*                                                                         *)
(* Text is a sequence of one-character strings.  A time is an integer      *)
(* number of ten-thousandths of a second (0.1 ms), so that the rounding to *)
(* milliseconds of toFixed(3) is a real conversion.  Arithmetic is exact   *)
(* decimal arithmetic; quotients are floored to the time grid.  Where the  *)
(* IEEE-754 doubles of the program decide a comparison with EPS            *)
(* differently from exact arithmetic at an exact tie, the comparisons      *)
(* x < p - EPS  and  s + EPS < p  follow the doubles, by the tables        *)
(* SubEpsAbove and AddEpsBelow; the tie of  hi - lo > EPS  is decided as   *)
(* in exact arithmetic.  A time that lies exactly on a half millisecond is *)
(* rounded away from zero, where the double nearest to it may lie on       *)
(* either side; such a time can differ from the program's by one           *)
(* millisecond.                                                            *)
(*                                                                         *)
(* Around the engine, the pages are modelled as interleaved handlers: the  *)
(* editing pipeline, the episode load and the save of v2 (src/v2/main.js,  *)
(* src/v2/ui/controls.js, makeThrottle) and the load of v1 (src/data.js).  *)
(* A text is there a version number, an episode a name, and a token array  *)
(* the pair of text and baseline it was computed from.                     *)
(***************************************************************************)
EXTENDS Integers, Sequences, FiniteSets, TLC

VARIABLES
    runsA,      \* myersEdits: first argument (array of strings)
    runsB,      \* myersEdits: second argument
    script,     \* myersEdits: returned edit script
    baseline,   \* baseline token array handed to buildFromBaseline
    text,       \* edited text handed to buildFromBaseline
    tokens,     \* the current token array (result / in-place argument)
    before,     \* the token array as it was before the last call
    doc,        \* the document handed to flattenToTokens
    data,       \* the document {text, segments} returned by tokensToData
    report,     \* the {ok, issues} returned by validateChronology
    objs,       \* which object each element of the current token array is
    phase,      \* name of the last call made
    app,        \* the page that is open: "v1", "v2", or "" for the engine alone
    liveText,   \* v2 store: version of the edited text (0 is the loaded text)
    composing,  \* v2 setupEditorPipeline: the IME guard
    elapsed,    \* makeThrottle: performance.now() - t >= ms
    throttled,  \* makeThrottle: its flag `pending`, a timer is set
    pending,    \* v2 initWorkers: the align requests not yet answered, in order
    applied,    \* what the tokens in the store were computed from
    baselineEp, \* the episode whose baseline is in the store
    player,     \* the episode whose audio is the source of the player
    loads,      \* the episode loads begun, in order
    saveQueued, \* v2 controls: saveQueued
    saving,     \* v2 controls: saving
    bodies,     \* v2 controls: performSave bodies between their guard and finally
    lateQueue,  \* v2 controls: saveQueued was set while a body was running
    idle        \* v2 controls: what isIdle() returns

\* the state of the alignment engine, and the state of the page around it
engine == <<runsA, runsB, script, baseline, text, tokens, before, doc, data, report, objs,
            phase>>
page == <<app, liveText, composing, elapsed, throttled, pending, applied, baselineEp,
          player, loads, saveQueued, saving, bodies, lateQueue, idle>>
vars == <<engine, page>>

\* no page is open: the engine is called on its own
NoPage ==
    /\ app = "" /\ liveText = 0 /\ composing = FALSE /\ elapsed = FALSE
    /\ throttled = FALSE /\ pending = <<>> /\ applied = [text |-> 0, base |-> ""]
    /\ baselineEp = ""
    /\ player = "" /\ loads = <<>> /\ saveQueued = FALSE /\ saving = FALSE
    /\ bodies = 0 /\ lateQueue = FALSE /\ idle = FALSE

-----------------------------------------------------------------------------
(* Numbers *)

EPS == 100                 \* 1e-2 s
MIN_WORD_DUR == 0
MS == 10                   \* one millisecond, the grain of toFixed(3)
HALF_SEC == 5000           \* 0.5 s
FALLBACK_SPAN == 2400      \* 0.24 s
DEFAULT_DUR == 2500        \* 0.25 s
NaN == 2000000             \* NaN / null / undefined time
NegInf == -1000000         \* -Infinity
PosInf == 1000000          \* Infinity

finite(x) == x # NaN /\ x # NegInf /\ x # PosInf

\* F applied to the value of x: x is evaluated once, before F uses it
Let(F(_), x) == CHOOSE r \in {F(v) : v \in {x}} : TRUE

Max2(x, y) == IF x >= y THEN x ELSE y
Min2(x, y) == IF x <= y THEN x ELSE y

\* JS  x + c  for a finite c
Plus(x, c) == IF finite(x) THEN x + c ELSE x

\* JS  x < y  (false when either side is NaN)
Lt(x, y) == x # NaN /\ y # NaN /\ x < y

\* JS  Math.max(x, y)
MathMax(x, y) == IF x = NaN \/ y = NaN THEN NaN ELSE Max2(x, y)

\* JS  Math.min(x, y)
MathMin(x, y) == IF x = NaN \/ y = NaN THEN NaN ELSE Min2(x, y)

\* JS  x || 0  on a number
Or0(x) == IF x = NaN THEN 0 ELSE x

\* Millisecond-grid values p, from 0 to 2 s, for which the double p - 0.01 is
\* larger than the double nearest to the decimal p - 0.01
\* (e.g. 0.017 - 0.01 = 0.007000000000000001).  Doubles are symmetric about
\* 0: below 0 the values are the negated ones of AddEpsBelow.
SubEpsAbove ==
    {170, 210, 250, 280, 290, 690, 700, 810, 820, 830, 840, 850,
     960, 970, 980, 990, 1000, 1010, 1120, 1130, 1140, 1150, 1160, 1170,
     1280, 1290, 1300, 1310, 1320, 1330, 1340}

\* Millisecond-grid values s, from 0 to 2 s, for which the double s + 0.01 is
\* smaller than the double nearest to the decimal s + 0.01
\* (e.g. 0.011 + 0.01 = 0.020999999999999998); below 0 the values are the
\* negated ones of SubEpsAbove (-0.017 + 0.01 = -0.007000000000000001).
AddEpsBelow ==
    {110, 180, 190, 590, 600, 710, 720, 730, 740, 750, 860,
     870, 880, 890, 900, 910, 1020, 1030, 1040, 1050, 1060, 1070}

\* JS  x < p - EPS
LtSubEps(x, p) ==
    /\ x # NaN /\ p # NaN
    /\ \/ x < Plus(p, -EPS)
       \/ finite(x) /\ finite(p) /\ x = p - EPS /\ (p \in SubEpsAbove \/ -p \in AddEpsBelow)

\* JS  s + EPS < p
AddEpsLt(s, p) ==
    /\ s # NaN /\ p # NaN
    /\ \/ Plus(s, EPS) < p
       \/ finite(s) /\ finite(p) /\ s + EPS = p /\ (s \in AddEpsBelow \/ -s \in SubEpsAbove)

\* JS  +x.toFixed(3)  (round half away from zero to the millisecond)
toFixed3(x) ==
    IF x >= 0 THEN ((x + MS \div 2) \div MS) * MS
    ELSE -((((-x) + MS \div 2) \div MS) * MS)

-----------------------------------------------------------------------------
(* Characters and strings *)

NL == "\n"

\* /\s/u on one character
IsWSChar(ch) == ch \in {" ", "\t", "\n"}

\* isWS: /^\s+$/u
isWS(s) == Len(s) > 0 /\ \A i \in 1..Len(s) : IsWSChar(s[i])

isNewline(s) == s = <<NL>>

RECURSIVE Concat(_)
\* Array.prototype.join('') of a sequence of strings
Concat(ss) == IF ss = <<>> THEN <<>> ELSE Head(ss) \o Concat(Tail(ss))

RECURSIVE JoinNL(_)
\* Array.prototype.join('\n') of a sequence of strings
JoinNL(ss) ==
    IF ss = <<>> THEN <<>>
    ELSE IF Len(ss) = 1 THEN ss[1]
    ELSE ss[1] \o <<NL>> \o JoinNL(Tail(ss))

Words(toks) == [i \in 1..Len(toks) |-> toks[i].word]

-----------------------------------------------------------------------------
(* tokenizeRuns *)

RECURSIVE tokenizeLoop(_, _, _, _, _)
tokenizeChar(txt, i, out, buf, bufIsWS) ==
    IF i > Len(txt)
    THEN IF buf # <<>> THEN Append(out, buf) ELSE out
    ELSE LET ch == txt[i]
             chIsWS == IsWSChar(ch)
         IN IF ch = NL
            THEN tokenizeLoop(txt, i + 1,
                     Append(IF buf # <<>> THEN Append(out, buf) ELSE out, <<NL>>),
                     <<>>, FALSE)
            ELSE IF buf = <<>>
            THEN tokenizeLoop(txt, i + 1, out, <<ch>>, chIsWS)
            ELSE IF bufIsWS = chIsWS
            THEN tokenizeLoop(txt, i + 1, out, Append(buf, ch), bufIsWS)
            ELSE tokenizeLoop(txt, i + 1, Append(out, buf), <<ch>>, chIsWS)

tokenizeLoop(txt, i, out, buf, bufIsWS) ==
    Let(LAMBDA v : tokenizeChar(v[1], v[2], v[3], v[4], v[5]), <<txt, i, out, buf, bufIsWS>>)

\* a variant of tokenizeRuns below that makes a run of every character
tokenizeChars(txt) == [i \in 1..Len(txt) |-> <<txt[i]>>]

tokenizeRuns(txt) == tokenizeLoop(txt, 1, <<>>, <<>>, FALSE)

-----------------------------------------------------------------------------
(* Tokens *)

Tok(w, s, e, st, p) == [word |-> w, start |-> s, end |-> e, state |-> st, probability |-> p]

\* wordsToText
wordsToText(toks) ==
    Concat(Words(SelectSeq(toks, LAMBDA t : t.state # "del")))

-----------------------------------------------------------------------------
(* normalizeBaselineForDiff *)

\* the runs of one baseline token whose text is neither '' nor '\n'
RECURSIVE normalizeParts(_, _, _, _, _)
normalizePart(t, parts, n, pos, out) ==
    IF n > Len(parts) THEN out
    ELSE LET p == parts[n]
             from == pos
             prob == IF finite(t.probability) THEN t.probability ELSE NaN
             span == Max2(0, Or0(t.end) - Or0(t.start))
             L == Max2(1, Len(t.word))
             anchor == Or0(t.start) + (span * from) \div L
             run == IF p = <<NL>> THEN Tok(<<NL>>, t.start, t.start, "keep", NaN)
                    ELSE IF isWS(p) THEN Tok(p, anchor, anchor, "keep", NaN)
                    ELSE Tok(p, t.start, t.end, "keep", prob)
         IN normalizeParts(t, parts, n + 1, pos + Len(p), Append(out, run))

normalizeParts(t, parts, n, pos, out) ==
    Let(LAMBDA v : normalizePart(v[1], v[2], v[3], v[4], v[5]), <<t, parts, n, pos, out>>)

RECURSIVE normalizeLoop(_, _, _)
normalizeToken(bt, n, out) ==
    IF n > Len(bt) THEN out
    ELSE LET t == bt[n] IN
         IF t.word = <<NL>>
         THEN normalizeLoop(bt, n + 1, Append(out, Tok(<<NL>>, t.start, t.end, "keep", NaN)))
         ELSE IF t.word = <<>>
         THEN normalizeLoop(bt, n + 1, Append(out, Tok(<<>>, t.start, t.end, "keep", NaN)))
         ELSE normalizeLoop(bt, n + 1,
                  normalizeParts(t, tokenizeRuns(t.word), 1, 0, out))

normalizeLoop(bt, n, out) ==
    Let(LAMBDA v : normalizeToken(v[1], v[2], v[3]), <<bt, n, out>>)

\* a variant of normalizeBaselineForDiff below that passes every token on whole
normalizeWhole(bt) == [k \in 1..Len(bt) |-> Tok(bt[k].word, bt[k].start, bt[k].end, "keep", NaN)]

normalizeBaselineForDiff(bt) == normalizeLoop(bt, 1, <<>>)

-----------------------------------------------------------------------------
(* myersEdits / backtrackEdits.  JS indices x, y are 0-based: a[x] is a[x+1] *)

Op(ty, n) == [type |-> ty, length |-> n]

\* V.get(k) ?? -Infinity
VGet(V, k) == IF k \in DOMAIN V THEN V[k] ELSE NegInf

\* V.set(k, x)
VSet(V, k, x) == [kk \in (DOMAIN V) \cup {k} |-> IF kk = k THEN x ELSE V[kk]]

\* a variant of the choice below that goes down on a tie, giving up the
\* furthest-reaching x
goesDownOnTie(V, d, k) == k = -d \/ (k # d /\ VGet(V, k - 1) <= VGet(V, k + 1))

\* a variant of the snake below that never follows the diagonal
snakeStay(a, b, x, y) == x

\* the choice between coming from diagonal k+1 (down) and k-1 (right)
goesDown(V, d, k) == k = -d \/ (k # d /\ VGet(V, k - 1) < VGet(V, k + 1))

RECURSIVE snake(_, _, _, _)
\* while (x < N && y < M && a[x] === b[y]) { x++; y++; }
snake(a, b, x, y) ==
    IF x < Len(a) /\ y < Len(b) /\ a[x + 1] = b[y + 1]
    THEN snake(a, b, x + 1, y + 1)
    ELSE x

RECURSIVE coalesce(_, _)
coalesceOp(ops, out) ==
    IF ops = <<>> THEN out
    ELSE LET op == Head(ops) IN
         IF out # <<>> /\ out[Len(out)].type = op.type
         THEN coalesce(Tail(ops),
                  [out EXCEPT ![Len(out)].length = out[Len(out)].length + op.length])
         ELSE coalesce(Tail(ops), Append(out, op))

coalesce(ops, out) == Let(LAMBDA v : coalesceOp(v[1], v[2]), <<ops, out>>)

Reverse(s) == [i \in 1..Len(s) |-> s[Len(s) + 1 - i]]

RECURSIVE backtrackLoop(_, _, _, _, _)
backtrackStep(trace, d, x, y, ops) ==
    LET V == trace[d + 1]
        k == x - y
        prevK == IF goesDown(V, d, k) THEN k + 1 ELSE k - 1
        prevX == IF prevK \in DOMAIN V THEN V[prevK] ELSE 0
        prevY == prevX - prevK
        equalLen == Max2(0, Min2(x - prevX, y - prevY))
        x1 == x - equalLen
        y1 == y - equalLen
        ops1 == IF equalLen # 0 THEN Append(ops, Op("equal", equalLen)) ELSE ops
    IN IF d = 0 THEN ops1
       ELSE IF x1 = prevX
       THEN backtrackLoop(trace, d - 1, x1, y1 - 1, Append(ops1, Op("insert", 1)))
       ELSE backtrackLoop(trace, d - 1, x1 - 1, y1, Append(ops1, Op("delete", 1)))

backtrackLoop(trace, d, x, y, ops) ==
    Let(LAMBDA v : backtrackStep(v[1], v[2], v[3], v[4], v[5]), <<trace, d, x, y, ops>>)

backtrackEdits(trace, a, b) ==
    coalesce(Reverse(backtrackLoop(trace, Len(trace) - 1, Len(a), Len(b), <<>>)), <<>>)

RECURSIVE myersK(_, _, _, _, _)
\* the inner loop over k; done when the end of both arrays is reached
myersDiagonal(a, b, d, k, V) ==
    IF k > d THEN [done |-> FALSE, V |-> V]
    ELSE LET x0 == IF goesDown(V, d, k) THEN VGet(V, k + 1) ELSE VGet(V, k - 1) + 1
             x == snake(a, b, x0, x0 - k)
             y == x - k
             V2 == VSet(V, k, x)
         IN IF x >= Len(a) /\ y >= Len(b)
            THEN [done |-> TRUE, V |-> V2]
            ELSE myersK(a, b, d, k + 2, V2)

myersK(a, b, d, k, V) ==
    Let(LAMBDA v : myersDiagonal(v[1], v[2], v[3], v[4], v[5]), <<a, b, d, k, V>>)

RECURSIVE myersD(_, _, _, _, _)
myersRound(a, b, d, V, trace) ==
    IF d > Len(a) + Len(b) THEN <<>>
    ELSE LET trace2 == Append(trace, V)
             r == myersK(a, b, d, -d, V)
         IN IF r.done THEN backtrackEdits(trace2, a, b)
            ELSE myersD(a, b, d + 1, r.V, trace2)

myersD(a, b, d, V, trace) ==
    Let(LAMBDA v : myersRound(v[1], v[2], v[3], v[4], v[5]), <<a, b, d, V, trace>>)

myersEdits(a, b) == myersD(a, b, 0, [kk \in {1} |-> 0], <<>>)

\* total length of the spans of one type
RECURSIVE spanTotal(_, _)
spanTotal(sc, ty) ==
    IF sc = <<>> THEN 0
    ELSE (IF Head(sc).type = ty THEN Head(sc).length ELSE 0) + spanTotal(Tail(sc), ty)

-----------------------------------------------------------------------------
(* The LCS-table aligner of the align worker (rebuildTokens), 0-based i, j *)

RECURSIVE lcsDp(_, _, _, _)
\* dp[i][j]
lcsDp(a, b, i, j) ==
    IF i >= Len(a) \/ j >= Len(b) THEN 0
    ELSE IF a[i + 1] = b[j + 1] THEN lcsDp(a, b, i + 1, j + 1) + 1
    ELSE Max2(lcsDp(a, b, i + 1, j), lcsDp(a, b, i, j + 1))

RECURSIVE lcsWalk(_, _, _, _, _)
\* the states pushed by the walk over the table and the two tail loops
lcsWalk(a, b, i, j, out) ==
    IF i < Len(a) /\ j < Len(b)
    THEN IF a[i + 1] = b[j + 1] THEN lcsWalk(a, b, i + 1, j + 1, Append(out, "keep"))
         ELSE IF lcsDp(a, b, i + 1, j) >= lcsDp(a, b, i, j + 1)
         THEN lcsWalk(a, b, i + 1, j, Append(out, "del"))
         ELSE lcsWalk(a, b, i, j + 1, Append(out, "ins"))
    ELSE IF i < Len(a) THEN lcsWalk(a, b, i + 1, j, Append(out, "del"))
    ELSE IF j < Len(b) THEN lcsWalk(a, b, i, j + 1, Append(out, "ins"))
    ELSE out

rebuildTokensStates(a, b) == lcsWalk(a, b, 0, 0, <<>>)

-----------------------------------------------------------------------------
(* assignTimesFromAnchors.  Positions are 1-based; 0 stands for null *)

SetMax(S) == CHOOSE x \in S : \A y \in S : y <= x
SetMin(S) == CHOOSE x \in S : \A y \in S : x <= y

\* a variant of placeable below that takes deleted tokens as well
placeableDel(t) == ~isNewline(t.word)

placeable(t) == t.state # "del" /\ ~isNewline(t.word)

\* nearest placeable token with a finite end before position i
leftNeighbor(arr, i) ==
    LET S == {k \in 1..(i - 1) : placeable(arr[k]) /\ finite(arr[k].end)}
    IN IF S = {} THEN 0 ELSE SetMax(S)

\* nearest placeable token with a finite start at or after position j
rightNeighbor(arr, j) ==
    LET S == {k \in j..Len(arr) : placeable(arr[k]) /\ finite(arr[k].start)}
    IN IF S = {} THEN 0 ELSE SetMin(S)

nearestEarlierStartLT(arr, time, i) ==
    LET S == {k \in 1..(i - 1) : /\ placeable(arr[k])
                                 /\ finite(arr[k].start)
                                 /\ LtSubEps(arr[k].start, time)}
    IN IF S = {} THEN 0 ELSE SetMax(S)

nearestLaterStartGT(arr, time, j) ==
    LET S == {k \in j..Len(arr) : /\ placeable(arr[k])
                                  /\ finite(arr[k].start)
                                  /\ arr[k].start > time + EPS}
    IN IF S = {} THEN 0 ELSE SetMin(S)

\* JS  hi - lo > EPS
GapGtEps(hi, lo) == hi - lo > EPS

\* the placement window [lo, hi] of the insert run at positions i .. j-1
insertWindow(arr, i, j) ==
    LET li == leftNeighbor(arr, i)
        ri == rightNeighbor(arr, j)
        Lend == IF li # 0 THEN arr[li].end ELSE NaN
        Lstart == IF li # 0 THEN arr[li].start ELSE NaN
        Rstart == IF ri # 0 THEN arr[ri].start ELSE NaN
        lo0 == IF finite(Lend) THEN Lend ELSE IF finite(Lstart) THEN Lstart ELSE 0
        hi0 == IF finite(Rstart) THEN Rstart
               ELSE IF finite(Lend) THEN Lend + HALF_SEC ELSE lo0 + HALF_SEC
        pivot == IF finite(Rstart) THEN Rstart ELSE IF finite(Lend) THEN Lend ELSE 0
        ei == nearestEarlierStartLT(arr, pivot, i)
        la == nearestLaterStartGT(arr, pivot, j)
        lo1 == IF ei # 0
               THEN Max2(lo0, IF finite(arr[ei].end) THEN arr[ei].end ELSE arr[ei].start)
               ELSE lo0
        hi1 == IF la # 0 THEN Min2(hi0, arr[la].start) ELSE hi0
        hiR == Rstart - EPS
        loLR == Max2(Max2(0, hiR - FALLBACK_SPAN), Lend + EPS)
    IN IF GapGtEps(hi0, lo0) THEN [lo |-> lo0, hi |-> hi0]
       ELSE IF GapGtEps(hi1, lo1) THEN [lo |-> lo1, hi |-> hi1]
       ELSE IF ~finite(Rstart) /\ finite(Lend)
       THEN [lo |-> Lend + EPS, hi |-> Lend + EPS + FALLBACK_SPAN]
       ELSE IF finite(Rstart) /\ ~finite(Lend)
       THEN [lo |-> Max2(0, hiR - FALLBACK_SPAN), hi |-> hiR]
       ELSE IF finite(Rstart) /\ finite(Lend)
       THEN [lo |-> IF GapGtEps(hiR, loLR) THEN loLR ELSE hiR, hi |-> hiR]
       ELSE [lo |-> 0, hi |-> FALLBACK_SPAN]

RECURSIVE distribute(_, _, _, _, _, _, _, _)
\* "distribute anchors": positions k .. j-1 of the run, nth words placed so far
distributeOne(arr, k, j, nth, lastAssigned, lo, hi, wordCount) ==
    IF k >= j THEN arr
    ELSE LET g == arr[k]
             span == Max2(hi - lo, MIN_WORD_DUR * Max2(1, wordCount))
             anchor == Min2(hi - EPS, Max2(lo + EPS, lastAssigned + EPS))
             sStep == lo + (span * (nth + 1)) \div (wordCount + 1)
             s == Min2(Max2(Max2(sStep, lastAssigned + EPS), lo + EPS), hi)
             e == Max2(s, Min2(hi - EPS, s + MIN_WORD_DUR))
         IN IF isWS(g.word)
            THEN distribute([arr EXCEPT ![k].start = anchor, ![k].end = anchor],
                            k + 1, j, nth, anchor, lo, hi, wordCount)
            ELSE distribute([arr EXCEPT ![k].start = s, ![k].end = e],
                            k + 1, j, nth + 1, s, lo, hi, wordCount)

distribute(arr, k, j, nth, lastAssigned, lo, hi, wordCount) ==
    Let(LAMBDA v : distributeOne(v[1], v[2], v[3], v[4], v[5], v[6], v[7], v[8]),
        <<arr, k, j, nth, lastAssigned, lo, hi, wordCount>>)

RECURSIVE localMonotonic(_, _, _, _)
\* "local monotonicity" over positions k .. j-1
localMonotonicOne(arr, k, j, prev) ==
    IF k >= j THEN arr
    ELSE LET t == arr[k]
             dur == IF isWS(t.word) THEN 0 ELSE MIN_WORD_DUR
             s1 == IF ~finite(t.start) THEN Plus(prev, EPS) ELSE t.start
             e1 == IF ~finite(t.end) THEN Plus(s1, dur) ELSE t.end
             s2 == IF LtSubEps(s1, prev) THEN Plus(prev, EPS) ELSE s1
             e2 == IF Lt(e1, s2) THEN Plus(s2, dur) ELSE e1
         IN localMonotonic([arr EXCEPT ![k].start = s2, ![k].end = e2], k + 1, j, s2)

localMonotonic(arr, k, j, prev) ==
    Let(LAMBDA v : localMonotonicOne(v[1], v[2], v[3], v[4]), <<arr, k, j, prev>>)

RECURSIVE assignRuns(_, _)
\* the while loop over the maximal runs of 'ins' tokens, from position i
assignRun(arr, i) ==
    IF i > Len(arr) THEN arr
    ELSE IF arr[i].state # "ins" THEN assignRuns(arr, i + 1)
    ELSE LET S == {k \in i..Len(arr) : arr[k].state # "ins"}
             j == IF S = {} THEN Len(arr) + 1 ELSE SetMin(S)
             wordCount == Cardinality({k \in i..(j - 1) : ~isWS(arr[k].word)})
             place(w) == localMonotonic(
                             distribute(arr, i, j, 0, w.lo - EPS, w.lo, w.hi, wordCount),
                             i, j, w.lo - EPS)
         IN assignRuns(Let(place, insertWindow(arr, i, j)), j)

assignRuns(arr, i) == Let(LAMBDA v : assignRun(v[1], v[2]), <<arr, i>>)

RECURSIVE globalPass(_, _, _)
\* a variant of globalPass below that leaves the array as it is
globalPassNone(arr, k, prev) == arr

\* "global pass": keep 'keep' word anchors, bump 'ins' and whitespace tokens
globalPassOne(arr, k, prev) ==
    IF k > Len(arr) THEN arr
    ELSE LET t == arr[k] IN
         IF t.state = "del" \/ isNewline(t.word) THEN globalPass(arr, k + 1, prev)
         ELSE LET ws == isWS(t.word)
                  dur == IF ws THEN 0 ELSE MIN_WORD_DUR
                  s1 == IF ~finite(t.start) THEN Plus(prev, EPS) ELSE t.start
                  e1 == IF ~finite(t.end) THEN Plus(s1, dur) ELSE t.end
                  bump == LtSubEps(s1, prev) /\ (t.state = "ins" \/ ws)
                  s2 == IF bump THEN Plus(prev, EPS) ELSE s1
                  e2 == IF bump /\ Lt(e1, s2) THEN Plus(s2, dur) ELSE e1
                  e3 == IF Lt(e2, s2) THEN Plus(s2, dur) ELSE e2
              IN globalPass([arr EXCEPT ![k].start = s2, ![k].end = e3],
                            k + 1, MathMax(prev, s2))

globalPass(arr, k, prev) ==
    Let(LAMBDA v : globalPassOne(v[1], v[2], v[3]), <<arr, k, prev>>)

\* "round to milliseconds", one token
roundToken(t) ==
    [t EXCEPT !.start = IF finite(@) THEN toFixed3(@) ELSE @,
              !.end = IF finite(@) THEN toFixed3(@) ELSE @]

\* "round to milliseconds", every token
roundAll(arr) == [k \in 1..Len(arr) |-> roundToken(arr[k])]

roundTimes(arr) == Let(roundAll, arr)

assignTimesFromAnchors(arr) == roundTimes(globalPass(assignRuns(arr, 1), 1, NegInf))

-----------------------------------------------------------------------------
(* buildFromBaseline *)

\* the tokens pushed for one step of the script; i, j are the counters of
\* the function (runs of A and of B consumed so far)
stepTokens(A, B, step, i, j) ==
    [k \in 1..step.length |->
        IF step.type = "equal"
        THEN Tok(A[i + k].word, A[i + k].start, A[i + k].end, "keep", A[i + k].probability)
        ELSE IF step.type = "delete"
        THEN Tok(A[i + k].word, A[i + k].start, A[i + k].end, "del", A[i + k].probability)
        ELSE Tok(B[j + k], NaN, NaN, "ins", NaN)]

\* a variant of stepI below whose 'delete' branch forgets i++
stepIEqualOnly(step, i) == IF step.type = "equal" THEN i + step.length ELSE i

\* i++ in the 'equal' and 'delete' branches
stepI(step, i) == IF step.type \in {"equal", "delete"} THEN i + step.length ELSE i

\* j++ in the 'insert' branch only
stepJ(step, j) == IF step.type = "insert" THEN j + step.length ELSE j

RECURSIVE replayScript(_, _, _, _, _, _)
replayStep(A, B, sc, i, j, out) ==
    IF sc = <<>> THEN out
    ELSE replayScript(A, B, Tail(sc), stepI(Head(sc), i), stepJ(Head(sc), j),
                      out \o stepTokens(A, B, Head(sc), i, j))

replayScript(A, B, sc, i, j, out) ==
    Let(LAMBDA v : replayStep(v[1], v[2], v[3], v[4], v[5], v[6]), <<A, B, sc, i, j, out>>)

\* the array 'out' before assignTimesFromAnchors
replayed(A, B) == Let(LAMBDA sc : replayScript(A, B, sc, 0, 0, <<>>), myersEdits(Words(A), B))

buildFromBaseline(bt, newText) ==
    assignTimesFromAnchors(
        Let(LAMBDA v : replayed(v[1], v[2]),
            <<normalizeBaselineForDiff(bt), tokenizeRuns(newText)>>))

-----------------------------------------------------------------------------
(* repairChronology *)

RECURSIVE repairPass(_, _, _)
repairOne(arr, k, prevStart) ==
    IF k > Len(arr) THEN arr
    ELSE LET t == arr[k] IN
         IF t.state = "del" \/ isNewline(t.word) THEN repairPass(arr, k + 1, prevStart)
         ELSE LET dur == IF isWS(t.word) THEN 0 ELSE MIN_WORD_DUR
                  s1 == IF ~finite(t.start) THEN Plus(prevStart, EPS) ELSE t.start
                  e1 == IF ~finite(t.end) THEN Plus(s1, dur) ELSE t.end
                  bump == LtSubEps(s1, prevStart)
                  s2 == IF bump THEN Plus(prevStart, EPS) ELSE s1
                  e2 == IF bump /\ Lt(e1, s2) THEN Plus(s2, dur) ELSE e1
              IN repairPass([arr EXCEPT ![k].start = s2, ![k].end = e2],
                            k + 1, MathMax(prevStart, s2))

repairPass(arr, k, prevStart) ==
    Let(LAMBDA v : repairOne(v[1], v[2], v[3]), <<arr, k, prevStart>>)

repairChronology(arr) == roundTimes(repairPass(arr, 1, NegInf))

-----------------------------------------------------------------------------
(* validateChronology *)

\* a variant of Issue below that counts tokens from 1
IssueFromOne(kind, i) == [kind |-> kind, index |-> i + 1]

\* an entry of 'issues': its message up to the label, and the index i of the label
Issue(kind, i) == [kind |-> kind, index |-> i]

RECURSIVE validatePass(_, _, _, _)
\* the forEach callback on token k (index k - 1), then the rest
validateOne(arr, k, prevStart, issues) ==
    IF k > Len(arr) THEN [issues |-> issues, prevStart |-> prevStart]
    ELSE LET t == arr[k]
             s == t.start
             e == t.end
             i == k - 1
             issues1 == IF LtSubEps(e, s) THEN Append(issues, Issue("end<start", i))
                        ELSE issues
         IN IF t.state = "del" \/ isNewline(t.word)
            THEN validatePass(arr, k + 1, prevStart, issues)
            ELSE IF ~finite(s) \/ ~finite(e)
            THEN validatePass(arr, k + 1, prevStart, Append(issues, Issue("NaN time", i)))
            ELSE IF AddEpsLt(s, prevStart)
            THEN IF t.state = "keep" THEN validatePass(arr, k + 1, s, issues1)
                 ELSE IF isWS(t.word) \/ Lt(e, prevStart)
                 THEN validatePass(arr, k + 1, prevStart,
                                   Append(issues1, Issue("non-monotonic start", i)))
                 ELSE validatePass(arr, k + 1, prevStart,
                                   Append(issues1, Issue("soft overlap", i)))
            ELSE validatePass(arr, k + 1, MathMax(prevStart, s), issues1)

validatePass(arr, k, prevStart, issues) ==
    Let(LAMBDA v : validateOne(v[1], v[2], v[3], v[4]), <<arr, k, prevStart, issues>>)

validateChronology(arr) ==
    LET r == validatePass(arr, 1, NegInf, <<>>)
    IN [ok |-> r.issues = <<>>, issues |-> r.issues]

\* no call of validateChronology made yet
NoReport == [ok |-> TRUE, issues |-> <<>>]

-----------------------------------------------------------------------------
(* tokensToData / flattenToTokens.  An absent probability is NaN *)

Word(w, s, e, p) == [word |-> w, start |-> s, end |-> e, probability |-> p]

\* the segment object built from the words of one segment
segmentOf(ws) ==
    LET starts == {ws[k].start : k \in {n \in 1..Len(ws) : finite(ws[n].start)}}
        ends == {ws[k].end : k \in {n \in 1..Len(ws) : finite(ws[n].end)}}
    IN [start |-> IF starts # {} THEN SetMin(starts) ELSE 0,
        end |-> IF ends # {} THEN SetMax(ends) ELSE DEFAULT_DUR,
        text |-> Concat(Words(ws)),
        words |-> ws]

\* "flush current segment": a segment without words is not pushed
flushSegment(segs, words) == IF words # <<>> THEN Append(segs, words) ELSE segs

RECURSIVE groupTokens(_, _, _, _, _, _)
\* the loop over the tokens; returns the list of word lists
groupToken(toks, k, segs, words, pendingWS, pendingS) ==
    IF k > Len(toks) THEN flushSegment(segs, words)
    ELSE LET t == toks[k] IN
         IF t.state = "del"
         THEN groupTokens(toks, k + 1, segs, words, pendingWS, pendingS)
         ELSE IF isNewline(t.word)
         THEN groupTokens(toks, k + 1, flushSegment(segs, words), <<>>, <<>>, PosInf)
         ELSE IF isWS(t.word)
         THEN groupTokens(toks, k + 1, segs, words, pendingWS \o t.word,
                          IF finite(t.start) THEN MathMin(pendingS, t.start) ELSE pendingS)
         ELSE LET start == IF finite(pendingS) THEN MathMin(pendingS, t.start) ELSE t.start
                  prob == IF finite(t.probability) THEN t.probability ELSE NaN
              IN groupTokens(toks, k + 1, segs,
                             Append(words, Word(pendingWS \o t.word, start, t.end, prob)),
                             <<>>, PosInf)

groupTokens(toks, k, segs, words, pendingWS, pendingS) ==
    Let(LAMBDA v : groupToken(v[1], v[2], v[3], v[4], v[5], v[6]),
        <<toks, k, segs, words, pendingWS, pendingS>>)

\* the returned object, from the segment objects
dataOf(segments) ==
    [text |-> JoinNL([n \in 1..Len(segments) |-> segments[n].text]),
     segments |-> segments]

segmentsOf(segs) == [n \in 1..Len(segs) |-> segmentOf(segs[n])]

tokensToData(toks) ==
    Let(dataOf, Let(segmentsOf, groupTokens(toks, 1, <<>>, <<>>, <<>>, PosInf)))

\* the token pushed for one word of a segment
wordToken(w) ==
    LET start == Or0(w.start)
        end == IF w.end = NaN \/ w.end = 0 THEN start + DEFAULT_DUR ELSE w.end
    IN Tok(w.word, start, end, "keep", IF finite(w.probability) THEN w.probability ELSE NaN)

RECURSIVE flattenLoop(_, _, _, _)
flattenSegment(segs, si, toks, lastEnd) ==
    IF si > Len(segs) THEN toks
    ELSE LET ws == [k \in 1..Len(segs[si].words) |-> wordToken(segs[si].words[k])]
             lastEnd2 == IF ws # <<>> THEN ws[Len(ws)].end ELSE lastEnd
             sep == IF si < Len(segs)
                    THEN <<Tok(<<NL>>, lastEnd2, lastEnd2, "keep", NaN)>>
                    ELSE <<>>
         IN flattenLoop(segs, si + 1, toks \o ws \o sep, lastEnd2)

flattenLoop(segs, si, toks, lastEnd) ==
    Let(LAMBDA v : flattenSegment(v[1], v[2], v[3], v[4]), <<segs, si, toks, lastEnd>>)

flattenToTokens(d) == flattenLoop(d.segments, 1, <<>>, 0)

\* rebuildFromText: the returned {tokens, data}
rebuildFromText(bt, editedText) ==
    Let(LAMBDA toks : [tokens |-> toks, data |-> tokensToData(toks)],
        repairChronology(buildFromBaseline(bt, editedText)))

-----------------------------------------------------------------------------
(* Objects.  An array holds objects; an object literal makes a new object, *)
(* and an assignment to a field of an element of an array writes to the    *)
(* object that element is.  An object is named by the place that made it.  *)

Obj(site, n) == <<site, n>>

\* the objects of an array handed in by the caller
objsOf(site, arr) == [k \in 1..Len(arr) |-> Obj(site, k)]

\* the baseline token each run of A is made from
sourceOf(bt) ==
    [n \in 1..Len(normalizeBaselineForDiff(bt)) |->
        CHOOSE k \in 1..Len(bt) :
            /\ Len(normalizeBaselineForDiff(SubSeq(bt, 1, k - 1))) < n
            /\ n <= Len(normalizeBaselineForDiff(SubSeq(bt, 1, k)))]

\* normalizeBaselineForDiff: out.push({ word, start, end, probability }),
\* the n-th run is a new object whatever token t it is made from
normalized(t, n) == Obj("A", n)

normalizedObjs(bt) ==
    Let(LAMBDA src : [n \in 1..Len(src) |-> normalized(Obj("baseline", src[n]), n)],
        sourceOf(bt))

\* a variant of pushed below that pushes w itself
pushedSame(w, n) == w

\* buildFromBaseline: out.push({ word: w.word, ..., state, ... }), the n-th
\* output token is a new object whatever w it is made from
pushed(w, n) == Obj("out", n)

\* the objects of 'out': A[i++] is the next run of A at each 'equal' and
\* 'delete' token, B[j++] is a string.  The time passes work in place on
\* that array and leave each token's state as it was pushed.
replayedObjs(objsA, out) ==
    [n \in 1..Len(out) |->
        IF out[n].state = "ins" THEN pushed(Obj("B", n), n)
        ELSE pushed(objsA[Cardinality({m \in 1..n : out[m].state # "ins"})], n)]

\* the fields of object o, which were old, once the time passes have assigned
\* start and end of the elements os of their array, leaving the values vals
assigned(o, old, os, vals) ==
    LET at == {n \in 1..Len(os) : os[n] = o}
    IN IF at = {} THEN old
       ELSE LET n == CHOOSE m \in at : TRUE
            IN [old EXCEPT !.start = vals[n].start, !.end = vals[n].end]

\* the baseline array as the caller finds it after the call
baselineAfter(bt, os, vals) ==
    [k \in 1..Len(bt) |-> assigned(Obj("baseline", k), bt[k], os, vals)]

-----------------------------------------------------------------------------
(* Inputs *)

MaxRuns == 3      \* runs per argument of myersEdits
MaxBase == 2      \* tokens of a baseline
MaxText == 3      \* characters of an edited text
MaxToks == 2      \* tokens of a stored token array
MaxSegs == 2      \* segments of a document
MaxWords == 2     \* words of a segment

SeqsUpTo(S, n) == UNION {[1..m -> S] : m \in 0..n}

RunAlphabet == {<<"a">>, <<"b">>, <<" ">>}
RunSeqs == SeqsUpTo(RunAlphabet, MaxRuns)

TextChars == {"a", " ", NL}
Texts == SeqsUpTo(TextChars, MaxText)

BaseWords == {<<"a">>, <<" ">>, <<NL>>, <<"a", " ", "a">>, <<" ", "a">>, <<>>}
BaseStarts == {0, 104, 3000}
BaseDurs == {0, 3000}
BaseTokens ==
    {Tok(w, s, s + d, "keep", NaN) : w \in BaseWords, s \in BaseStarts, d \in BaseDurs}
Baselines == SeqsUpTo(BaseTokens, MaxBase)

TokWords == {<<"a">>, <<" ">>, <<NL>>}
TokStates == {"keep", "ins", "del"}
TokStarts == {NaN, 0, 70, 168}
TokEnds == {NaN, 0, 300}
StoredTokens ==
    {Tok(w, s, e, st, NaN) : w \in TokWords, s \in TokStarts, e \in TokEnds, st \in TokStates}
TokenArrays == SeqsUpTo(StoredTokens, MaxToks)

DocWordTexts == {<<"a">>, <<" ", "a">>, <<"a", " ">>, <<" ">>}
DocStarts == {0, 1000}
DocWords == {Word(w, s, s + 500, NaN) : w \in DocWordTexts, s \in DocStarts}
DocWordLists == SeqsUpTo(DocWords, MaxWords) \ {<<>>}
\* a well-formed document: segment text = its words, text = segments joined
docOf(wls) ==
    [text |-> JoinNL([n \in 1..Len(wls) |-> Concat(Words(wls[n]))]),
     segments |-> [n \in 1..Len(wls) |-> segmentOf(wls[n])]]
Docs == {docOf(wls) : wls \in SeqsUpTo(DocWordLists, MaxSegs)}

EmptyDoc == [text |-> <<>>, segments |-> <<>>]

\* documents whose words carry a confidence: none, 0 or 0.9 (in hundredths)
ConfWords ==
    {Word(w, 1000, 1500, p) : w \in {<<"a">>, <<" ", "a">>, <<" ">>}, p \in {NaN, 0, 90}}
ConfDocs ==
    {docOf(wls) : wls \in SeqsUpTo(SeqsUpTo(ConfWords, MaxWords) \ {<<>>}, MaxSegs)}

\* winLenFor of the align worker: the window of an insert run of n words
WIN_PER_WORD == 1200       \* 0.12 s
winLenFor(n) == Max2(WIN_PER_WORD * Max2(1, n), WIN_PER_WORD)

\* the words of the worked scenarios
hello == <<"h", "e", "l", "l", "o">>
there == <<"t", "h", "e", "r", "e">>
world == <<"w", "o", "r", "l", "d">>
space == <<" ">>

\* baseline tokens of one to three runs, with and without a length and a
\* confidence; a baseline of up to two of them
NormTokens ==
    {Tok(w, s, s + d, "keep", p) :
        w \in {<<"a">>, <<" ">>, <<"a", " ", "b">>, <<" ", "a">>, <<"a", "b", " ", " ">>,
               <<NL>>, <<>>},
        s \in {0, 1000}, d \in {0, 3000}, p \in {NaN, 90}}

\* a baseline whose first token starts 3 ms into the audio
EarlyBaselines ==
    SeqsUpTo({Tok(w, 30, 30 + d, "keep", NaN) : w \in {<<"a">>, <<" ">>}, d \in {0, 10}},
             MaxBase) \ {<<>>}

\* baseline tokens whose end lies before their start, by 5 ms and by 0.2 s;
\* a baseline of one or two tokens with at least one of them
InvertedTokens ==
    {Tok(w, 3000, 3000 - d, "keep", NaN) :
        w \in {<<"a">>, <<" ">>, <<"a", " ", "a">>}, d \in {50, 2000}}
InvertedBaselines ==
    {b \in SeqsUpTo(BaseTokens \cup InvertedTokens, MaxBase) :
        \E k \in 1..Len(b) : b[k] \in InvertedTokens}

\* baseline  hello [0, e1], ' ' [e1, e1], world [s2, s2 + 0.5]
helloWorld(e1, s2) ==
    <<Tok(hello, 0, e1, "keep", NaN), Tok(space, e1, e1, "keep", NaN),
      Tok(world, s2, s2 + 5000, "keep", NaN)>>
ScenarioBaselines ==
    {<<>>} \cup {helloWorld(e1, s2) : e1 \in {4000, 5000}, s2 \in {5000, 5200, 10000}}
ScenarioTexts ==
    {hello \o space \o there \o space \o world,
     hello \o space \o there \o space \o there \o space \o world,
     hello \o space \o world,
     hello \o space \o world \o space \o there,
     there \o space \o hello \o space \o world,
     world, hello, space \o world, hello \o space,
     there, there \o space \o there, <<>>}

-----------------------------------------------------------------------------
(* Calls *)

CallMyersEdits ==
    /\ phase = "init"
    /\ script' = myersEdits(runsA, runsB)
    /\ phase' = "myersEdits"
    /\ UNCHANGED <<page, runsA, runsB, baseline, text, tokens, before, doc, data, report, objs>>

\* tokenizeRuns on a text
CallTokenizeRuns ==
    /\ phase = "init"
    /\ runsB' = tokenizeRuns(text)
    /\ phase' = "tokenizeRuns"
    /\ UNCHANGED <<page, runsA, script, baseline, text, tokens, before, doc, data, report, objs>>

\* normalizeBaselineForDiff on a baseline; the runs are kept as the array
CallNormalizeBaselineForDiff ==
    /\ phase = "init"
    /\ tokens' = normalizeBaselineForDiff(baseline)
    /\ objs' = normalizedObjs(baseline)
    /\ before' = tokens
    /\ phase' = "normalizeBaselineForDiff"
    /\ UNCHANGED <<page, runsA, runsB, script, baseline, text, doc, data, report>>

CallBuildFromBaseline ==
    /\ phase = "init"
    /\ tokens' = buildFromBaseline(baseline, text)
    /\ objs' = replayedObjs(normalizedObjs(baseline), tokens')
    /\ baseline' = baselineAfter(baseline, objs', tokens')
    /\ before' = tokens
    /\ phase' = "buildFromBaseline"
    /\ UNCHANGED <<page, runsA, runsB, script, text, doc, data, report>>

CallRebuildFromText ==
    /\ phase = "init"
    /\ LET r == rebuildFromText(baseline, text)
       IN tokens' = r.tokens /\ data' = r.data
    /\ objs' = replayedObjs(normalizedObjs(baseline), tokens')
    /\ baseline' = baselineAfter(baseline, objs', tokens')
    /\ before' = tokens
    /\ phase' = "rebuildFromText"
    /\ UNCHANGED <<page, runsA, runsB, script, text, doc, report>>

\* repairChronology on the current array, a first and a second time
CallRepairChronology ==
    /\ phase \in {"init", "repairChronology"}
    /\ tokens' = repairChronology(tokens)
    /\ objs' = objs
    /\ before' = tokens
    /\ phase' = IF phase = "init" THEN "repairChronology" ELSE "repairChronology2"
    /\ UNCHANGED <<page, runsA, runsB, script, baseline, text, doc, data, report>>

CallValidateChronology ==
    /\ phase \in {"init", "rebuildFromText"}
    /\ report' = validateChronology(tokens)
    /\ phase' = "validateChronology"
    /\ UNCHANGED <<page, runsA, runsB, script, baseline, text, tokens, before, doc, data, objs>>

CallTokensToData ==
    /\ phase \in {"init", "flattenToTokens", "buildFromBaseline"}
    /\ data' = tokensToData(tokens)
    /\ phase' = "tokensToData"
    /\ UNCHANGED <<page, runsA, runsB, script, baseline, text, tokens, before, doc, report, objs>>

CallFlattenToTokens ==
    /\ phase = "init"
    /\ tokens' = flattenToTokens(doc)
    /\ objs' = objsOf("toks", tokens')
    /\ before' = tokens
    /\ phase' = "flattenToTokens"
    /\ UNCHANGED <<page, runsA, runsB, script, baseline, text, doc, data, report>>

-----------------------------------------------------------------------------
(* Specifications *)

\* tokensToData on a stored token array, and on the output of flattenToTokens
StoredTokensToData == phase = "init" /\ CallTokensToData
FlattenedToData == phase = "flattenToTokens" /\ CallTokensToData

\* validateChronology on a stored token array, and on the output of
\* rebuildFromText
StoredValidate == phase = "init" /\ CallValidateChronology
RebuiltValidate == phase = "rebuildFromText" /\ CallValidateChronology

\* tokensToData on the output of buildFromBaseline
BuiltToData == phase = "buildFromBaseline" /\ CallTokensToData

\* myersEdits on two arrays of strings
InitAlign ==
    /\ runsA \in RunSeqs /\ runsB \in RunSeqs /\ script = <<>>
    /\ baseline = <<>> /\ text = <<>> /\ tokens = <<>> /\ before = <<>>
    /\ doc = EmptyDoc /\ data = EmptyDoc /\ report = NoReport /\ objs = <<>> /\ phase = "init"
    /\ NoPage
NextAlign == CallMyersEdits
SpecAlign == InitAlign /\ [][NextAlign]_vars

\* tokenizeRuns on a text of letters, blanks, tabs and newlines
InitRuns ==
    /\ text \in SeqsUpTo(TextChars \cup {"b", "\t"}, MaxText)
    /\ runsA = <<>> /\ runsB = <<>> /\ script = <<>>
    /\ baseline = <<>> /\ tokens = <<>> /\ before = <<>>
    /\ doc = EmptyDoc /\ data = EmptyDoc /\ report = NoReport /\ objs = <<>> /\ phase = "init"
    /\ NoPage
NextRuns == CallTokenizeRuns
SpecRuns == InitRuns /\ [][NextRuns]_vars

\* normalizeBaselineForDiff on a baseline
InitNorm ==
    /\ baseline \in SeqsUpTo(NormTokens, MaxBase)
    /\ runsA = <<>> /\ runsB = <<>> /\ script = <<>>
    /\ text = <<>> /\ tokens = <<>> /\ before = <<>>
    /\ doc = EmptyDoc /\ data = EmptyDoc /\ report = NoReport /\ objs = <<>> /\ phase = "init"
    /\ NoPage
NextNorm == CallNormalizeBaselineForDiff
SpecNorm == InitNorm /\ [][NextNorm]_vars

\* a baseline and an edited text: buildFromBaseline, rebuildFromText
Init ==
    /\ baseline \in Baselines /\ text \in Texts
    /\ runsA = <<>> /\ runsB = <<>> /\ script = <<>>
    /\ tokens = <<>> /\ before = <<>>
    /\ doc = EmptyDoc /\ data = EmptyDoc /\ report = NoReport /\ objs = <<>> /\ phase = "init"
    /\ NoPage
Next == CallBuildFromBaseline \/ CallRebuildFromText
Spec == Init /\ [][Next]_vars

\* the worked scenarios: a hello/world baseline or none, and an edit of it
InitScenario ==
    /\ baseline \in ScenarioBaselines /\ text \in ScenarioTexts
    /\ runsA = <<>> /\ runsB = <<>> /\ script = <<>>
    /\ tokens = <<>> /\ before = <<>>
    /\ doc = EmptyDoc /\ data = EmptyDoc /\ report = NoReport /\ objs = <<>> /\ phase = "init"
    /\ NoPage
SpecScenario == InitScenario /\ [][Next]_vars

\* a baseline with a token that ends before it starts, and an edited text
InitInverted ==
    /\ baseline \in InvertedBaselines /\ text \in Texts
    /\ runsA = <<>> /\ runsB = <<>> /\ script = <<>>
    /\ tokens = <<>> /\ before = <<>>
    /\ doc = EmptyDoc /\ data = EmptyDoc /\ report = NoReport /\ objs = <<>> /\ phase = "init"
    /\ NoPage

\* all families of inputs of buildFromBaseline and rebuildFromText
InitBuild == InitInverted \/ InitScenario \/ Init
SpecBuild == InitBuild /\ [][Next]_vars

\* rebuildFromText for an early baseline or a scenario, then validateChronology
InitValid ==
    /\ \/ baseline \in EarlyBaselines /\ text \in SeqsUpTo({"a", "b", " "}, MaxText)
       \/ baseline \in ScenarioBaselines /\ text \in ScenarioTexts
    /\ runsA = <<>> /\ runsB = <<>> /\ script = <<>>
    /\ tokens = <<>> /\ before = <<>>
    /\ doc = EmptyDoc /\ data = EmptyDoc /\ report = NoReport /\ objs = <<>> /\ phase = "init"
    /\ NoPage
NextValid == CallRebuildFromText \/ RebuiltValidate
SpecValid == InitValid /\ [][NextValid]_vars

\* a token array not produced by the engine (loaded, restored by undo)
InitTokens ==
    /\ tokens \in TokenArrays /\ before = <<>>
    /\ runsA = <<>> /\ runsB = <<>> /\ script = <<>>
    /\ baseline = <<>> /\ text = <<>>
    /\ doc = EmptyDoc /\ data = EmptyDoc /\ report = NoReport
    /\ objs = objsOf("tokens", tokens) /\ phase = "init"
    /\ NoPage
NextTokens == CallRepairChronology \/ StoredTokensToData \/ StoredValidate
SpecTokens == InitTokens /\ [][NextTokens]_vars

\* a loaded document with confidences: its flattened tokens are the baseline
\* of buildFromBaseline, for the unchanged text or an edit, then tokensToData
InitConf ==
    /\ doc \in ConfDocs /\ baseline = flattenToTokens(doc)
    /\ text \in {wordsToText(baseline), <<"a">>, <<"a", " ", "b">>}
    /\ runsA = <<>> /\ runsB = <<>> /\ script = <<>>
    /\ tokens = <<>> /\ before = <<>>
    /\ data = EmptyDoc /\ report = NoReport /\ objs = <<>> /\ phase = "init"
    /\ NoPage
NextConf == CallBuildFromBaseline \/ BuiltToData
SpecConf == InitConf /\ [][NextConf]_vars

\* a document: flattenToTokens, then tokensToData
InitDoc ==
    /\ doc \in Docs /\ data = EmptyDoc
    /\ runsA = <<>> /\ runsB = <<>> /\ script = <<>>
    /\ baseline = <<>> /\ text = <<>> /\ tokens = <<>> /\ before = <<>>
    /\ report = NoReport /\ objs = <<>> /\ phase = "init"
    /\ NoPage
NextDoc == CallFlattenToTokens \/ FlattenedToData
SpecDoc == InitDoc /\ [][NextDoc]_vars

-----------------------------------------------------------------------------
(* The pages: editing pipeline, episode loads and save of v2, load of v1 *)

MaxEdits == 2     \* input events that change the text
MaxPending == 2   \* align requests waiting for their answer
MaxLoads == 3     \* episode loads begun
Episodes == {"A", "B"}

\* no engine call is made: the page is modelled around the engine
NoEngine ==
    /\ runsA = <<>> /\ runsB = <<>> /\ script = <<>>
    /\ baseline = <<>> /\ text = <<>> /\ tokens = <<>> /\ before = <<>>
    /\ doc = EmptyDoc /\ data = EmptyDoc /\ report = NoReport /\ objs = <<>>
    /\ phase = "init"

\* the throttled function of scheduleAlignSync with a ready worker and a
\* baseline: setBaseline and align are posted for the state read now, and the
\* function waits for the answer
alignSync ==
    /\ Len(pending) < MaxPending
    /\ pending' = Append(pending, [text |-> liveText', base |-> baselineEp])

\* a throttle that drops a call made inside the window
scheduleLeadingOnly ==
    IF throttled \/ ~elapsed
    THEN UNCHANGED <<elapsed, throttled, pending>>
    ELSE elapsed' = FALSE /\ alignSync /\ UNCHANGED throttled

\* a call of scheduleAlignSync, the function returned by makeThrottle
scheduleAlignSync ==
    IF throttled
    THEN UNCHANGED <<elapsed, throttled, pending>>
    ELSE IF elapsed
         THEN elapsed' = FALSE /\ alignSync /\ UNCHANGED throttled
         ELSE throttled' = TRUE /\ UNCHANGED <<elapsed, pending>>

\* the input listener of the editor: the text goes to the store, the
\* alignment is scheduled
InputEvent ==
    /\ app = "v2" /\ ~composing
    /\ liveText < MaxEdits /\ liveText' = liveText + 1
    /\ scheduleAlignSync
    /\ UNCHANGED <<engine, app, composing, applied, baselineEp, player, loads,
                   saveQueued, saving, bodies, lateQueue, idle>>

CompositionStart ==
    /\ app = "v2" /\ ~composing /\ composing' = TRUE
    /\ UNCHANGED <<engine, app, liveText, elapsed, throttled, pending, applied,
                   baselineEp, player, loads, saveQueued, saving, bodies, lateQueue,
                   idle>>

CompositionEnd ==
    /\ app = "v2" /\ composing /\ composing' = FALSE
    /\ UNCHANGED liveText
    /\ scheduleAlignSync
    /\ UNCHANGED <<engine, app, applied, baselineEp, player, loads, saveQueued,
                   saving, bodies, lateQueue, idle>>

\* ms milliseconds have passed since the throttled function last ran
WindowElapses ==
    /\ app = "v2" /\ ~elapsed /\ elapsed' = TRUE
    /\ UNCHANGED <<engine, app, liveText, composing, throttled, pending, applied,
                   baselineEp, player, loads, saveQueued, saving, bodies, lateQueue,
                   idle>>

\* the timer set by the throttle fires
ThrottleTimer ==
    /\ app = "v2" /\ throttled /\ throttled' = FALSE /\ elapsed' = FALSE
    /\ UNCHANGED liveText
    /\ alignSync
    /\ UNCHANGED <<engine, app, composing, applied, baselineEp, player, loads,
                   saveQueued, saving, bodies, lateQueue, idle>>

\* the worker answers its oldest request; handleMessage resolves the promise
\* of its id and the throttled function goes on to store.setTokens
AlignResult ==
    /\ app = "v2" /\ pending # <<>>
    /\ applied' = Head(pending)
    /\ pending' = Tail(pending)
    /\ UNCHANGED <<engine, app, liveText, composing, elapsed, throttled, baselineEp,
                   player, loads, saveQueued, saving, bodies, lateQueue, idle>>

\* a load that never learns it was superseded
neverAborted(i) == FALSE
\* controller.signal.aborted, and the AbortError of a fetch given the signal
aborted(i) == loads[i].aborted
\* token !== state.lastLoad.token
stale(i) == i # Len(loads)

\* an episode is selected: the controller of the load before is aborted and
\* the load waits for its first answer
SelectEpisode ==
    /\ app \in {"v1", "v2"} /\ Len(loads) < MaxLoads
    /\ \E e \in Episodes :
          loads' = Append([i \in DOMAIN loads |->
                              IF i = Len(loads) THEN [loads[i] EXCEPT !.aborted = TRUE]
                              ELSE loads[i]],
                          [ep |-> e, aborted |-> FALSE,
                           stage |-> IF app = "v2" THEN "loadEpisode" ELSE "corrections"])
    /\ UNCHANGED <<engine, app, liveText, composing, elapsed, throttled, pending,
                   applied, baselineEp, player, saveQueued, saving, bodies,
                   lateQueue, idle>>

\* v2 loadEpisodeFile after `await loadEpisode`
LoadEpisodeResolves ==
    /\ app = "v2"
    /\ \E i \in DOMAIN loads :
          /\ loads[i].stage = "loadEpisode"
          /\ loads' = [loads EXCEPT ![i].stage = "done"]
          /\ IF aborted(i)
             THEN UNCHANGED <<player, baselineEp, applied>>
             ELSE /\ player' = loads[i].ep
                  /\ baselineEp' = loads[i].ep
                  /\ applied' = [text |-> 0, base |-> loads[i].ep]
    /\ UNCHANGED <<engine, app, liveText, composing, elapsed, throttled, pending,
                   saveQueued, saving, bodies, lateQueue, idle>>

\* v1 load after each of its awaits: the corrections, the transcript, the
\* confirmations, and the audio when it is fetched with the token
LoadContinues ==
    /\ app = "v1"
    /\ \E i \in DOMAIN loads :
          \/ /\ loads[i].stage = "corrections"
             /\ loads' = [loads EXCEPT ![i].stage =
                              IF stale(i) THEN "done" ELSE "transcript"]
             /\ UNCHANGED <<player, baselineEp, applied>>
          \/ /\ loads[i].stage = "transcript"
             /\ IF stale(i)
                THEN /\ loads' = [loads EXCEPT ![i].stage = "done"]
                     /\ UNCHANGED <<baselineEp, applied>>
                ELSE /\ loads' = [loads EXCEPT ![i].stage = "confirm"]
                     /\ baselineEp' = loads[i].ep
                     /\ applied' = [text |-> 0, base |-> loads[i].ep]
             /\ UNCHANGED player
          \/ /\ loads[i].stage = "confirm"
             /\ IF stale(i)
                THEN /\ loads' = [loads EXCEPT ![i].stage = "done"]
                     /\ UNCHANGED player
                ELSE \/ /\ loads' = [loads EXCEPT ![i].stage = "audio"]
                        /\ UNCHANGED player
                     \/ /\ loads' = [loads EXCEPT ![i].stage = "done"]
                        /\ player' = loads[i].ep
             /\ UNCHANGED <<baselineEp, applied>>
          \/ /\ loads[i].stage = "audio"
             /\ loads' = [loads EXCEPT ![i].stage = "done"]
             /\ IF aborted(i) THEN UNCHANGED player ELSE player' = loads[i].ep
             /\ UNCHANGED <<baselineEp, applied>>
    /\ UNCHANGED <<engine, app, liveText, composing, elapsed, throttled, pending,
                   saveQueued, saving, bodies, lateQueue, idle>>

\* performSave up to its first await
performSave ==
    IF saving
    THEN UNCHANGED <<saving, bodies>>
    ELSE saving' = TRUE /\ bodies' = bodies + 1

\* the click listener of the save button
ClickSave ==
    /\ app = "v2"
    /\ IF ~idle
       THEN /\ saveQueued' = TRUE /\ lateQueue' = saving
            /\ UNCHANGED <<saving, bodies>>
       ELSE performSave /\ UNCHANGED <<saveQueued, lateQueue>>
    /\ UNCHANGED <<engine, app, liveText, composing, elapsed, throttled, pending,
                   applied, baselineEp, player, loads, idle>>

\* checkQueuedSave, run every 200 ms
CheckQueuedSave ==
    /\ app = "v2" /\ saveQueued /\ idle /\ ~saving
    /\ performSave
    /\ UNCHANGED <<engine, app, liveText, composing, elapsed, throttled, pending,
                   applied, baselineEp, player, loads, saveQueued, lateQueue, idle>>

\* the finally block of performSave
SaveSettles ==
    /\ app = "v2" /\ bodies > 0
    /\ saving' = FALSE /\ saveQueued' = FALSE /\ bodies' = bodies - 1
    /\ lateQueue' = FALSE
    /\ UNCHANGED <<engine, app, liveText, composing, elapsed, throttled, pending,
                   applied, baselineEp, player, loads, idle>>

\* the pipeline becomes idle or busy, as isIdle() reports it
IdleChanges ==
    /\ app = "v2" /\ idle' = ~idle
    /\ UNCHANGED <<engine, app, liveText, composing, elapsed, throttled, pending,
                   applied, baselineEp, player, loads, saveQueued, saving, bodies,
                   lateQueue>>

\* v2 with episode A loaded, its worker ready and nothing edited
InitPipeline ==
    /\ NoEngine
    /\ app = "v2" /\ liveText = 0 /\ composing = FALSE /\ elapsed \in BOOLEAN
    /\ throttled = FALSE /\ pending = <<>> /\ applied = [text |-> 0, base |-> "A"]
    /\ baselineEp = "A" /\ player = "A"
    /\ loads = <<[ep |-> "A", aborted |-> FALSE, stage |-> "done"]>>
    /\ saveQueued = FALSE /\ saving = FALSE /\ bodies = 0 /\ lateQueue = FALSE
    /\ idle \in BOOLEAN
NextEdit ==
    \/ InputEvent \/ CompositionStart \/ CompositionEnd
    \/ WindowElapses \/ ThrottleTimer \/ AlignResult
NextPipeline ==
    \/ NextEdit
    \/ SelectEpisode \/ LoadEpisodeResolves
    \/ ClickSave \/ CheckQueuedSave \/ SaveSettles \/ IdleChanges
SpecPipeline == InitPipeline /\ [][NextPipeline]_vars

\* the edit stream of one document; timers fire and the worker answers
SpecEdit ==
    /\ InitPipeline /\ [][NextEdit]_vars
    /\ WF_vars(ThrottleTimer) /\ WF_vars(AlignResult)

\* either page with no episode loaded yet
InitLoads ==
    /\ NoEngine
    /\ app \in {"v1", "v2"} /\ liveText = 0 /\ composing = FALSE /\ elapsed = FALSE
    /\ throttled = FALSE /\ pending = <<>> /\ applied = [text |-> 0, base |-> ""]
    /\ baselineEp = "" /\ player = "" /\ loads = <<>>
    /\ saveQueued = FALSE /\ saving = FALSE /\ bodies = 0 /\ lateQueue = FALSE
    /\ idle = FALSE
NextLoads == SelectEpisode \/ LoadEpisodeResolves \/ LoadContinues
SpecLoads == InitLoads /\ [][NextLoads]_vars

-----------------------------------------------------------------------------
(* Properties *)

built == phase = "buildFromBaseline"
rebuilt == phase = "rebuildFromText"

\* the tokens of an array in the given states, in order
InStates(toks, S) == SelectSeq(toks, LAMBDA t : t.state \in S)

\* start_i <= start_{i+1} over the non-deleted, non-newline tokens
Monotonic(toks) ==
    LET p == SelectSeq(toks, placeable)
    IN \A k \in 1..(Len(p) - 1) : p[k].start <= p[k + 1].start

\* finite, non-decreasing start times
OrderedBaseline(bt) ==
    /\ \A k \in 1..Len(bt) : finite(bt[k].start) /\ finite(bt[k].end)
    /\ \A k \in 1..(Len(bt) - 1) : bt[k].start <= bt[k + 1].start

\* C1 (as claimed): in the output of buildFromBaseline the keep+del tokens are
\* the runs of the normalized baseline, the keep+ins tokens are the runs of
\* the edited text, and the text of the non-deleted tokens is the edited text.
C1_Completeness ==
    built =>
        /\ Words(InStates(tokens, {"keep", "del"})) = Words(normalizeBaselineForDiff(baseline))
        /\ Words(InStates(tokens, {"keep", "ins"})) = tokenizeRuns(text)
        /\ wordsToText(tokens) = text

\* C2 (as claimed): after buildFromBaseline on a baseline with finite,
\* non-decreasing starts, adjacent non-deleted non-newline tokens have
\* non-decreasing starts.
C2_MonotonicAfterBuild ==
    (built /\ OrderedBaseline(baseline)) => Monotonic(tokens)

\* the keep word tokens have the times of the baseline runs they copy
KeepTimesKept(toks, bt) ==
    LET kd == InStates(toks, {"keep", "del"})
        A == normalizeBaselineForDiff(bt)
    IN \A k \in 1..Len(kd) :
          (kd[k].state = "keep" /\ ~isWS(kd[k].word)) =>
              (kd[k].start = A[k].start /\ kd[k].end = A[k].end)

\* C3 (as claimed): every keep word token returned by buildFromBaseline and
\* by rebuildFromText has exactly the start and end of its baseline run.
C3_KeepTimesKept ==
    (built \/ rebuilt) => KeepTimesKept(tokens, baseline)

\* C4 (as claimed): buildFromBaseline(B, wordsToText(B)) has only keep tokens.
C4_UnchangedTextAllKeep ==
    (built /\ text = wordsToText(baseline)) =>
        \A k \in 1..Len(tokens) : tokens[k].state = "keep"

aligned == phase = "myersEdits"

\* number of 'keep' tokens pushed by the LCS-table aligner
lcsKept(a, b) == Len(SelectSeq(rebuildTokensStates(a, b), LAMBDA st : st = "keep"))

\* C5: myersEdits returns a shortest edit script: its equal spans total the
\* length of a longest common subsequence, inserts + deletes = |a| + |b| -
\* 2*LCS, and the LCS-table aligner keeps the same number of runs.
C5_Minimal ==
    aligned =>
        /\ spanTotal(script, "equal") = lcsDp(runsA, runsB, 0, 0)
        /\ spanTotal(script, "equal") = lcsKept(runsA, runsB)
        /\ spanTotal(script, "insert") + spanTotal(script, "delete")
             = Len(runsA) + Len(runsB) - 2 * lcsDp(runsA, runsB, 0, 0)

C5_Witness ==
    /\ aligned
    /\ spanTotal(script, "equal") > 0
    /\ spanTotal(script, "insert") > 0
    /\ spanTotal(script, "delete") > 0

\* C6 (as claimed): myersEdits(A, A) is exactly one span, 'equal' of length |A|.
C6_IdentityOneSpan ==
    (aligned /\ runsA = runsB) => script = <<Op("equal", Len(runsA))>>

\* C6 (amended): myersEdits(A, A) is one 'equal' span of length |A| when A is
\* not empty, and the empty script when A is empty.
C6_Identity ==
    (aligned /\ runsA = runsB) =>
        script = IF runsA = <<>> THEN <<>> ELSE <<Op("equal", Len(runsA))>>

C6_Witness == aligned /\ runsA = runsB /\ Len(runsA) >= 2 /\ Len(script) = 1

\* C7 (as claimed): after repairChronology adjacent non-deleted non-newline
\* tokens have non-decreasing starts.
C7_MonotonicAfterRepair ==
    phase = "repairChronology" => Monotonic(tokens)

\* C8 (as claimed): a second repairChronology changes no start and no end.
C8_RepairIdempotent ==
    phase = "repairChronology2" => tokens = before

\* C9 (as claimed): tokensToData(T).text is the text of the non-deleted tokens.
C9_TextLossless ==
    phase = "tokensToData" => data.text = wordsToText(tokens)

\* C10 (as claimed): tokensToData(flattenToTokens(d)) has the text and the
\* number of segments of the well-formed document d.
C10_DocRoundTrip ==
    (phase = "tokensToData" /\ doc # EmptyDoc) =>
        /\ data.text = doc.text
        /\ Len(data.segments) = Len(doc.segments)

\* the 'ins' tokens of an array form one contiguous run
OneInsRun(toks) ==
    LET I == {k \in 1..Len(toks) : toks[k].state = "ins"}
    IN I # {} /\ \A k \in 1..Len(toks) : (SetMin(I) <= k /\ k <= SetMax(I)) => k \in I

scenario2 ==
    /\ baseline = helloWorld(5000, 5000)
    /\ text = hello \o space \o there \o space \o world

\* C11 (as claimed): in scenario 2, buildFromBaseline yields one contiguous
\* run of 'ins' tokens holding 'there' and one whitespace run, and the start
\* of 'there' is strictly between 0.5 and 1.0.
C11_Scenario2 ==
    (built /\ scenario2) =>
        /\ OneInsRun(tokens)
        /\ Words(InStates(tokens, {"ins"})) \in {<<there, space>>, <<space, there>>}
        /\ \A k \in 1..Len(tokens) :
              (tokens[k].state = "ins" /\ ~isWS(tokens[k].word)) =>
                  (tokens[k].start > 5000 /\ tokens[k].start < 10000)

\* the array handed to assignTimesFromAnchors by buildFromBaseline
preAssign == replayed(normalizeBaselineForDiff(baseline), tokenizeRuns(text))

\* first positions of the runs of 'ins' tokens, and the position after a run
InsRunStarts(arr) ==
    {i \in 1..Len(arr) : arr[i].state = "ins" /\ (i = 1 \/ arr[i - 1].state # "ins")}
InsRunEnd(arr, i) ==
    LET S == {k \in i..Len(arr) : arr[k].state # "ins"}
    IN IF S = {} THEN Len(arr) + 1 ELSE SetMin(S)

\* every token of the insert runs of pre that lie between two baseline
\* anchors L, R with R.start - L.end >= gap satisfies P(token, L, R) in post
InAnchoredRuns(pre, post, gap, P(_, _, _)) ==
    \A i \in InsRunStarts(pre) :
        LET j == InsRunEnd(pre, i)
            li == leftNeighbor(pre, i)
            ri == rightNeighbor(pre, j)
        IN (/\ li # 0 /\ ri # 0
            /\ \A k \in li..i : pre[k].state = "ins" => k >= i
            /\ pre[ri].start - pre[li].end >= gap)
           => \A k \in i..(j - 1) : P(post[k], pre[li], pre[ri])

InsideWindow(t, L, R) ==
    /\ finite(t.start) /\ finite(t.end)
    /\ t.start >= L.end + EPS
    /\ t.end <= R.start - EPS
    /\ t.end >= t.start

\* C12 (as claimed): every token of an insert run between anchors L and R
\* with R.start > L.end gets start >= L.end + EPS, end <= R.start - EPS and
\* end >= start.
C12_InsideWindow ==
    built => InAnchoredRuns(preAssign, tokens, 1, InsideWindow)

\* number of non-whitespace runs of a text
wordRuns(txt) == Len(SelectSeq(tokenizeRuns(txt), LAMBDA w : ~isWS(w)))

AllIns(toks) == \A k \in 1..Len(toks) : toks[k].state = "ins"

NonDecreasing(toks) == \A k \in 1..(Len(toks) - 1) : toks[k].start <= toks[k + 1].start

\* C13 (as claimed): for an empty baseline and a non-empty edited text every
\* token of buildFromBaseline is 'ins', every start lies in
\* [0, windowLength(n)) and the starts are non-decreasing in emitted order.
C13_EmptyBaseline ==
    (built /\ baseline = <<>> /\ text # <<>>) =>
        /\ AllIns(tokens)
        /\ \A k \in 1..Len(tokens) :
              /\ finite(tokens[k].start)
              /\ 0 <= tokens[k].start
              /\ tokens[k].start < winLenFor(wordRuns(text))
        /\ NonDecreasing(tokens)

RECURSIVE IsSubseq(_, _)
\* b is a with some elements removed
IsSubseq(b, a) ==
    IF b = <<>> THEN TRUE
    ELSE IF a = <<>> THEN FALSE
    ELSE IF Head(a) = Head(b) THEN IsSubseq(Tail(b), Tail(a))
    ELSE IsSubseq(b, Tail(a))

States(toks) == [k \in 1..Len(toks) |-> toks[k].state]

pureDeletion ==
    built /\ IsSubseq(tokenizeRuns(text), Words(normalizeBaselineForDiff(baseline)))

\* C14: when the runs of the edited text are the normalized baseline runs
\* with some removed, buildFromBaseline emits no 'ins' token, as many 'del'
\* tokens as runs were removed, and the remaining runs as 'keep'; for
\* baseline hello, ' ', world and text 'world' the states are del, del, keep.
C14_PureDeletion ==
    pureDeletion =>
        /\ InStates(tokens, {"ins"}) = <<>>
        /\ Words(tokens) = Words(normalizeBaselineForDiff(baseline))
        /\ Words(InStates(tokens, {"keep"})) = tokenizeRuns(text)
        /\ Len(InStates(tokens, {"del"})) =
              Len(normalizeBaselineForDiff(baseline)) - Len(tokenizeRuns(text))
        /\ (baseline = helloWorld(5000, 5000) /\ text = world)
              => States(tokens) = <<"del", "del", "keep">>

C14_Witness ==
    /\ pureDeletion
    /\ baseline = helloWorld(5000, 5000) /\ text = world
    /\ States(tokens) = <<"del", "del", "keep">>

validated == phase = "validateChronology"

\* positions of the non-deleted, non-newline tokens
Placed(toks) == {k \in 1..Len(toks) : placeable(toks[k])}

\* positions of the non-deleted, non-newline tokens whose end is below their start
EndBelowStart(toks) == {k \in Placed(toks) : toks[k].end < toks[k].start}

\* finite times and non-decreasing starts over the non-deleted, non-newline tokens
FiniteOrdered(toks) ==
    /\ \A k \in Placed(toks) : finite(toks[k].start) /\ finite(toks[k].end)
    /\ Monotonic(toks)

\* C15 (as claimed): on an array with finite times and non-decreasing starts
\* in which exactly one non-deleted, non-newline token has end < start,
\* validateChronology returns ok = false and exactly one issue, naming that
\* token's index.
C15_OneIssue ==
    (validated /\ FiniteOrdered(tokens) /\ Cardinality(EndBelowStart(tokens)) = 1) =>
        /\ ~report.ok
        /\ Len(report.issues) = 1
        /\ \A k \in EndBelowStart(tokens) : report.issues[1].index = k - 1

\* C15 (amended): on such an array with exactly one token whose end is below
\* its start, validateChronology returns exactly one issue, 'end<start' at
\* that token's index, when the end is more than EPS below the start, and
\* ok = true with no issue when it is less than EPS below.
C15_OneIssueBeyondEps ==
    (validated /\ FiniteOrdered(tokens) /\ Cardinality(EndBelowStart(tokens)) = 1) =>
        \A k \in EndBelowStart(tokens) :
            /\ tokens[k].end < tokens[k].start - EPS
                  => /\ ~report.ok
                     /\ report.issues = <<[kind |-> "end<start", index |-> k - 1]>>
            /\ tokens[k].end > tokens[k].start - EPS
                  => (report.ok /\ report.issues = <<>>)

\* an array of two tokens whose second one ends more than EPS below its start
C15_Witness ==
    /\ validated /\ FiniteOrdered(tokens)
    /\ Len(tokens) = 2 /\ EndBelowStart(tokens) = {2}
    /\ tokens[2].end < tokens[2].start - EPS
    /\ report.issues = <<[kind |-> "end<start", index |-> 1]>>

\* the running cursor prevStart when validateChronology reaches token k
cursorAt(toks, k) == validatePass(SubSeq(toks, 1, k - 1), 1, NegInf, <<>>).prevStart

\* positions of the non-deleted tokens with finite times whose start is more
\* than EPS below the running cursor
BelowCursor(toks) ==
    {k \in Placed(toks) : /\ finite(toks[k].start) /\ finite(toks[k].end)
                          /\ toks[k].start + EPS < cursorAt(toks, k)}

\* the issues about the order of starts
OrderIssues(r) ==
    SelectSeq(r.issues, LAMBDA is : is.kind \in {"non-monotonic start", "soft overlap"})

IssueIndexes(iss) == {iss[n].index : n \in 1..Len(iss)}

\* C16 (as claimed): a non-deleted token whose start is more than EPS below
\* the running cursor raises no issue and resets the cursor when it is a
\* 'keep' word, and raises an issue (ok = false) when it is an 'ins' token
\* or a whitespace token.
C16_Asymmetry ==
    validated =>
        \A k \in BelowCursor(tokens) :
            /\ (tokens[k].state = "keep" /\ ~isWS(tokens[k].word))
                  => /\ (k - 1) \notin IssueIndexes(OrderIssues(report))
                     /\ cursorAt(tokens, k + 1) = tokens[k].start
            /\ (tokens[k].state = "ins" \/ isWS(tokens[k].word))
                  => /\ (k - 1) \in IssueIndexes(OrderIssues(report))
                     /\ ~report.ok

\* C17 (as claimed): after repairChronology every non-deleted, non-newline
\* token has a finite start and a finite end, whichever of them were not
\* finite before, the first one included.
C17_RepairHeals ==
    phase = "repairChronology" =>
        \A k \in Placed(tokens) : finite(tokens[k].start) /\ finite(tokens[k].end)

DelTimes == {<<NaN, NaN>>, <<0, 0>>, <<20000, 100>>}
DelShifts == {-3000, 7000}
delAt(arr, s, e) ==
    [k \in 1..Len(arr) |->
        IF arr[k].state = "del" THEN [arr[k] EXCEPT !.start = s, !.end = e] ELSE arr[k]]
delMoved(arr, d) ==
    [k \in 1..Len(arr) |->
        IF arr[k].state = "del"
        THEN [arr[k] EXCEPT !.start = Plus(@, d), !.end = Plus(@, d)] ELSE arr[k]]
DelVariants(arr) ==
    {delAt(arr, p[1], p[2]) : p \in DelTimes} \cup {delMoved(arr, d) : d \in DelShifts}

NonDeleted(arr) == InStates(arr, {"keep", "ins"})

\* C19: assignTimesFromAnchors gives the non-deleted tokens the same start
\* and end whatever the start and end of the 'del' tokens, and wordsToText
\* and tokensToData give the same text and document whatever the times of
\* the 'del' tokens and whether they are there at all.
C19_DelNoInfluence ==
    built =>
        /\ \A v \in DelVariants(preAssign) :
              NonDeleted(assignTimesFromAnchors(v)) = NonDeleted(tokens)
        /\ \A v \in DelVariants(tokens) \cup {NonDeleted(tokens)} :
              /\ wordsToText(v) = wordsToText(tokens)
              /\ tokensToData(v) = tokensToData(tokens)

\* a deleted run with finite times lies just before an inserted run, where
\* the left anchor of the run is looked for
C19_Witness ==
    /\ built
    /\ \E k \in 1..(Len(tokens) - 1) :
          /\ tokens[k].state = "del" /\ finite(tokens[k].end)
          /\ tokens[k + 1].state = "ins"
          /\ \E m \in 1..(k - 1) : tokens[m].state = "keep"

\* every token has a finite start and a finite end
FiniteTimes(toks) == \A k \in 1..Len(toks) : finite(toks[k].start) /\ finite(toks[k].end)

RunKind(r) ==
    IF r = <<NL>> THEN "newline"
    ELSE IF r = <<>> THEN "empty"
    ELSE IF \A i \in 1..Len(r) : r[i] \in {" ", "\t"} THEN "space"
    ELSE IF \A i \in 1..Len(r) : r[i] \notin {" ", "\t", NL} THEN "word"
    ELSE "mixed"

\* C21: the runs of tokenizeRuns concatenate to the input; each is a single
\* newline, or non-newline whitespace only, or free of whitespace; none is
\* empty; no two adjacent runs are both whitespace or both free of it; the
\* empty input gives no run.
C21_Tokenizer ==
    phase = "tokenizeRuns" =>
        /\ Concat(runsB) = text
        /\ \A k \in 1..Len(runsB) : RunKind(runsB[k]) \in {"newline", "space", "word"}
        /\ \A k \in 1..(Len(runsB) - 1) :
              RunKind(runsB[k]) = "newline" \/ RunKind(runsB[k]) # RunKind(runsB[k + 1])
        /\ (text = <<>> => runsB = <<>>)

\* a run of a blank and a tab, and a newline, in one text
C21_Witness ==
    /\ phase = "tokenizeRuns"
    /\ \E k \in 1..Len(runsB) : RunKind(runsB[k]) = "space" /\ Len(runsB[k]) = 2
                                  /\ runsB[k][1] # runsB[k][2]
    /\ \E k \in 1..Len(runsB) : RunKind(runsB[k]) = "newline"

\* the confidences of the words of a document, in order
Confidences(d) ==
    Concat([n \in 1..Len(d.segments) |->
               [k \in 1..Len(d.segments[n].words) |-> d.segments[n].words[k].probability]])

\* no 'ins' token has a confidence, and each kept word has the confidence of
\* the baseline token its run was made from
ConfidenceCarried(toks, bt) ==
    LET kd == InStates(toks, {"keep", "del"})
        src == sourceOf(bt)
    IN /\ \A k \in 1..Len(toks) : toks[k].state = "ins" => ~finite(toks[k].probability)
       /\ \A k \in 1..Len(kd) :
             (kd[k].state = "keep" /\ kd[k].word # <<>> /\ ~isWS(kd[k].word)) =>
                 kd[k].probability = bt[src[k]].probability

\* C22 (as claimed): in the output of buildFromBaseline no 'ins' token has a
\* confidence and every kept word has the confidence of its baseline token;
\* flattenToTokens, buildFromBaseline on the unchanged text and tokensToData
\* return the words of the document with their confidences.
C22_Confidence ==
    /\ built => ConfidenceCarried(tokens, baseline)
    /\ (phase = "tokensToData" /\ text = wordsToText(baseline)) =>
           Confidences(data) = Confidences(doc)

\* the positions in A of the runs made from baseline token k, and the
\* character offset in that token of the run at position n
RunsOf(bt, k) == {n \in 1..Len(sourceOf(bt)) : sourceOf(bt)[n] = k}
OffsetOf(A, bt, k, n) ==
    Len(Concat([m \in 1..(n - SetMin(RunsOf(bt, k))) |-> A[SetMin(RunsOf(bt, k)) + m - 1].word]))

\* C23: for a baseline token with finite start <= end the runs of
\* normalizeBaselineForDiff concatenate to the token's text; a run of
\* non-newline whitespace at offset from of a token of length L has
\* start = end = token.start + (token.end - token.start) * from / L (on the
\* time grid), inside the token's span, and no probability; a word run has
\* the token's start, end and probability.
C23_Normalization ==
    phase = "normalizeBaselineForDiff" =>
        \A k \in 1..Len(baseline) :
            LET t == baseline[k]
                R == RunsOf(baseline, k)
            IN (finite(t.start) /\ finite(t.end) /\ t.start <= t.end) =>
                 /\ R # {}
                 /\ Concat([m \in 1..Cardinality(R) |-> tokens[SetMin(R) + m - 1].word]) = t.word
                 /\ \A n \in R :
                       /\ RunKind(tokens[n].word) \in {"newline", "space", "word", "empty"}
                       /\ RunKind(tokens[n].word) = "space" =>
                             /\ tokens[n].start = tokens[n].end
                             /\ tokens[n].start =
                                  t.start + ((t.end - t.start) * OffsetOf(tokens, baseline, k, n))
                                                \div Len(t.word)
                             /\ t.start <= tokens[n].start /\ tokens[n].start <= t.end
                             /\ ~finite(tokens[n].probability)
                       /\ RunKind(tokens[n].word) = "word" =>
                             /\ tokens[n].start = t.start /\ tokens[n].end = t.end
                             /\ tokens[n].probability = t.probability

\* a token with a length and a confidence gives a word, then a whitespace
\* run inside its span
C23_Witness ==
    /\ phase = "normalizeBaselineForDiff"
    /\ \E n \in 2..Len(tokens) :
          /\ RunKind(tokens[n].word) = "space" /\ RunKind(tokens[n - 1].word) = "word"
          /\ finite(tokens[n - 1].probability)
          /\ tokens[n - 1].start < tokens[n].start /\ tokens[n].start < tokens[n - 1].end

\* C28 (as claimed): for a baseline with finite times and any edited text,
\* validateChronology on the tokens of rebuildFromText returns ok = true and
\* no issue.
C28_RebuildValidates ==
    (phase = "validateChronology" /\ FiniteTimes(baseline)) =>
        report.ok /\ report.issues = <<>>

\* the largest start among the non-deleted, non-newline tokens before
\* position k, -Infinity when there is none
RunMax(arr, k) ==
    LET S == {arr[m].start : m \in {n \in Placed(arr) : n < k}}
    IN IF S = {} THEN NegInf ELSE SetMax(S)

\* C29 (as claimed): after repairChronology on an array with finite times
\* every non-deleted, non-newline token starts no more than EPS below the
\* largest start before it, and a token that was no more than EPS below the
\* running maximum of the pass keeps its start, rounded to the millisecond.
C29_EpsTolerantOrder ==
    (phase \in {"repairChronology", "repairChronology2"} /\ FiniteTimes(before)) =>
        \A k \in Placed(tokens) :
            /\ tokens[k].start >= Plus(RunMax(tokens, k), -EPS)
            /\ before[k].start >= Plus(RunMax(repairPass(before, 1, NegInf), k), -EPS) =>
                   tokens[k].start = toFixed3(before[k].start)

\* C24 (as claimed): an align request is posted to the worker only when no
\* earlier align request is still waiting for its answer.
C24_SerializedAlign ==
    [][Len(pending') > Len(pending) => pending = <<>>]_vars

\* C25 (as claimed): the answer of the worker is written to the store only
\* if the text and the baseline it was computed from are still the live text
\* and the baseline of the store.
C25_StaleIgnored ==
    [][(Len(pending') < Len(pending) /\ applied' = Head(pending)) =>
           (Head(pending).text = liveText /\ Head(pending).base = baselineEp)]_vars

\* C26 (as claimed): saveQueued is never cleared for a save that was queued
\* while the performSave body that clears it was already running, and at
\* most one performSave body runs at a time.
C26_QueuedSaveKept ==
    [][/\ bodies' <= 1
       /\ (saveQueued /\ ~saveQueued') => ~lateQueue]_vars

\* C27 (as claimed): a step of an episode load writes the audio source, the
\* baseline or the tokens of the page only if no episode was selected after
\* that load began.
C27_SupersededDropped ==
    [][\A i \in DOMAIN loads :
           (/\ loads'[i].stage # loads[i].stage
            /\ <<player, baselineEp, applied>>' # <<player, baselineEp, applied>>)
               => i = Len(loads)]_vars

\* the load of one episode ended after another episode was selected and
\* before the load of that one ended, and the page has no episode yet
C27_Witness ==
    /\ Len(loads) = 2 /\ loads[1].ep # loads[2].ep
    /\ loads[1].stage = "done" /\ loads[2].stage # "done"
    /\ player = "" /\ baselineEp = "" /\ applied.base = ""

=============================================================================
